---- MODULE Spec2Model ----
(***************************************************************************)
(* scripts/new_component.py: scaffolds a Lean file and, optionally, a test *)
(* file from fixed templates.                                              *)
(*                                                                         *)
(* Strings the program computes with (paths, module identifiers, output    *)
(* lines, file contents) are sequences of string fragments; a path         *)
(* argument is a sequence of one-character strings, so that parsing,       *)
(* suffix removal and separator replacement are computed, not assumed.     *)
(*                                                                         *)
(* The filesystem is a tree below the working directory: every node is     *)
(* absent, a directory (writable or not) or a regular file with a content. *)
(* Nothing in the program deletes, so the tree only grows.                 *)
(***************************************************************************)
EXTENDS Integers, Sequences, FiniteSets, TLC

VARIABLES fs, proc

vars == <<fs, proc>>

----------------------------------------------------------------------------
(* Bounds *)

\* Longest argument string enumerated by SpecPure.
MaxLen == 5

----------------------------------------------------------------------------
(* Characters and strings *)

Sep == "/"
Dot == "."

\* The alphabet of the enumerated argument strings.
Chars == {Sep, Dot, "a", "F"}

RECURSIVE SeqsUpTo(_, _)
\* All sequences over S of length at most n.
SeqsUpTo(S, n) ==
    IF n = 0 THEN {<<>>}
    ELSE LET shorter == SeqsUpTo(S, n - 1)
         IN  shorter \cup {Append(s, c) : s \in {t \in shorter : Len(t) = n - 1}, c \in S}

Last(s) == s[Len(s)]
Front(s) == SubSeq(s, 1, Len(s) - 1)

RECURSIVE Join(_, _)
\* sep.join(parts)
Join(parts, sep) ==
    IF parts = <<>> THEN <<>>
    ELSE IF Len(parts) = 1 THEN parts[1]
    ELSE parts[1] \o <<sep>> \o Join(Tail(parts), sep)

RECURSIVE Split(_, _)
\* s.split(sep): the pieces between separators, empty pieces included.
Split(s, sep) ==
    IF \A i \in 1..Len(s) : s[i] # sep THEN <<s>>
    ELSE LET i == CHOOSE k \in 1..Len(s) : s[k] = sep /\ \A j \in 1..(k - 1) : s[j] # sep
         IN  <<SubSeq(s, 1, i - 1)>> \o Split(SubSeq(s, i + 1, Len(s)), sep)

\* s.rfind(c), 1-based; 0 when c does not occur.
RFind(s, c) ==
    IF \A i \in 1..Len(s) : s[i] # c THEN 0
    ELSE CHOOSE k \in 1..Len(s) : s[k] = c /\ \A j \in (k + 1)..Len(s) : s[j] # c

\* s.replace(old, new) for one-character old and new: every occurrence.
Replace(s, old, new) == [i \in 1..Len(s) |-> IF s[i] = old THEN new ELSE s[i]]

----------------------------------------------------------------------------
(* pathlib.PurePosixPath *)

\* The root of a POSIX path: "/" for a leading separator, "//" for exactly two.
Root(s) ==
    IF Len(s) >= 1 /\ s[1] = Sep
    THEN IF Len(s) >= 2 /\ s[2] = Sep /\ ~(Len(s) >= 3 /\ s[3] = Sep)
         THEN <<Sep, Sep>>
         ELSE <<Sep>>
    ELSE <<>>

\* Path(s): the root, and the components that are neither empty nor ".".
Path(s) ==
    [root  |-> Root(s),
     parts |-> SelectSeq(Split(s, Sep), LAMBDA c : c # <<>> /\ c # <<Dot>>)]

\* str(path) and path.as_posix()
StrOf(path) ==
    IF path.root = <<>> /\ path.parts = <<>> THEN <<Dot>>
    ELSE path.root \o Join(path.parts, Sep)

\* path.name: the final component, empty for "." and for a bare root.
Name(path) == IF path.parts = <<>> THEN <<>> ELSE Last(path.parts)

\* path.suffix: from the last dot of the name, unless that dot is the name's
\* first or last character.
Suffix(path) ==
    LET name == Name(path)
        i    == RFind(name, Dot)
    IN  IF 1 < i /\ i < Len(name) THEN SubSeq(name, i, Len(name)) ELSE <<>>

\* path.parent: the path without its final component; "." is its own parent.
Parent(parts) == IF parts = <<>> THEN <<>> ELSE Front(parts)

\* Variant: the name is cut at its first inner dot, losing every suffix.
StripAllSuffixes(path) ==
    LET name == Name(path)
        i    == CHOOSE k \in 1..Len(name) :
                    /\ (name[k] = Dot /\ k > 1) \/ k = Len(name)
                    /\ \A j \in 2..(k - 1) : name[j] # Dot
        stem == IF name[i] = Dot /\ i > 1 THEN SubSeq(name, 1, i - 1) ELSE name
    IN  [path EXCEPT !.parts = Front(path.parts) \o <<stem>>]

\* path.with_suffix(""), for a path with a name: the name loses its suffix.
WithSuffixEmpty(path) ==
    LET name == Name(path)
        stem == SubSeq(name, 1, Len(name) - Len(Suffix(path)))
    IN  [path EXCEPT !.parts = Front(path.parts) \o <<stem>>]

\* Variant: the suffix is kept.
ModuleIdentifierKeepSuffix(path) == Replace(StrOf(path), Sep, Dot)

\* lean_path.with_suffix("").as_posix().replace("/", ".")
ModuleIdentifier(path) == Replace(StrOf(WithSuffixEmpty(path)), Sep, Dot)

----------------------------------------------------------------------------
(* The filesystem below the working directory *)

NameA == <<"a">>
NameT == <<"t">>
NameF == <<"F", Dot, "x">>

\* The nodes of the tree, each named by its components from the working
\* directory (<<>>, which is always a directory).
Nodes ==
    {<<>>, <<NameA>>, <<NameA, NameA>>, <<NameA, NameA, NameF>>,
     <<NameT>>, <<NameT, NameF>>}

Absent == [kind |-> "none", w |-> FALSE, content |-> <<>>]
Dir(writable) == [kind |-> "dir", w |-> writable, content |-> <<>>]
File(content) == [kind |-> "file", w |-> TRUE, content |-> content]

\* Content that a file created by someone else may hold.
OtherContent == <<"-- written by hand\n">>

\* The proper ancestors of a node, the working directory included.
Ancestors(d) == {SubSeq(d, 1, k) : k \in 0..(Len(d) - 1)}

\* The error the kernel reports while walking to d's parent: a component that
\* is a regular file (ENOTDIR) or missing (ENOENT); "none" when all are
\* directories.
WalkError(f, d) ==
    LET bad == {a \in Ancestors(d) : f[a].kind # "dir"}
    IN  IF bad = {} THEN "none"
        ELSE LET first == CHOOSE a \in bad : \A b \in bad : Len(a) <= Len(b)
             IN  IF f[first].kind = "file" THEN "NotADirectoryError"
                 ELSE "FileNotFoundError"

\* path.exists(): stat succeeds; ENOENT and ENOTDIR give False.
Exists(f, d) == WalkError(f, d) = "none" /\ f[d].kind # "none"

\* path.is_dir()
IsDir(f, d) == WalkError(f, d) = "none" /\ f[d].kind = "dir"

\* os.mkdir(d): the error raised, "none" when the directory is created.
OsMkdirError(f, d) ==
    IF d = <<>> THEN "FileExistsError"
    ELSE IF WalkError(f, d) # "none" THEN WalkError(f, d)
    ELSE IF f[d].kind # "none" THEN "FileExistsError"
    ELSE IF ~f[Parent(d)].w THEN "PermissionError"
    ELSE "none"

\* Path.mkdir(parents=False, exist_ok=True): the second attempt, made after
\* the parents have been created.
MkdirNoParents(f, d) ==
    LET e == OsMkdirError(f, d)
    IN  IF e = "none" THEN [err |-> "none", fs |-> [f EXCEPT ![d] = Dir(TRUE)]]
        ELSE IF e # "FileNotFoundError" /\ IsDir(f, d) THEN [err |-> "none", fs |-> f]
        ELSE [err |-> e, fs |-> f]

\* Variant: parents=False, a missing parent raising FileNotFoundError.
MkdirParentsFalse(f, d) == MkdirNoParents(f, d)

RECURSIVE Mkdir(_, _)
\* Path.mkdir(parents=True, exist_ok=True): creates the directory and every
\* missing parent; an existing directory is accepted, anything else raises.
Mkdir(f, d) ==
    LET e == OsMkdirError(f, d)
    IN  IF e = "none" THEN [err |-> "none", fs |-> [f EXCEPT ![d] = Dir(TRUE)]]
        ELSE IF e = "FileNotFoundError"
        THEN IF Parent(d) = d THEN [err |-> e, fs |-> f]
             ELSE LET r == Mkdir(f, Parent(d))
                  IN  IF r.err # "none" THEN r ELSE MkdirNoParents(r.fs, d)
        ELSE IF IsDir(f, d) THEN [err |-> "none", fs |-> f]
        ELSE [err |-> e, fs |-> f]

\* path.write_text(content): open(path, "w") creates or truncates the file,
\* then the content is written.
WriteText(f, d, content) ==
    IF d = <<>> THEN [err |-> "IsADirectoryError", fs |-> f]
    ELSE IF WalkError(f, d) # "none" THEN [err |-> WalkError(f, d), fs |-> f]
    ELSE IF f[d].kind = "dir" THEN [err |-> "IsADirectoryError", fs |-> f]
    ELSE IF f[d].kind = "none" /\ ~f[Parent(d)].w
    THEN [err |-> "PermissionError", fs |-> f]
    ELSE [err |-> "none", fs |-> [f EXCEPT ![d] = File(content)]]

----------------------------------------------------------------------------
(* Templates and output lines *)

\* write_lean_file's content
PrimaryTemplate ==
    <<"/--\n", "  TODO: add description.\n", "-/\n", "import Mathlib\n\n",
      "namespace Thesis\n\n", "-- TODO: definitions and theorems.\n\n",
      "end Thesis\n">>

\* write_test_file's content
TestTemplate(module) ==
    <<"import ">> \o module \o <<"\n\n", "-- TODO: add tests for ">> \o module \o <<".\n">>

AlreadyExistsLine(path) == StrOf(path) \o <<" already exists">>
CreatedLine(path) == <<"Created ">> \o StrOf(path)
UsageLine == <<"Usage: new_component.py path/to/File.lean [tests/Path.lean]">>

----------------------------------------------------------------------------
(* One invocation of the script *)

Procs == {1, 2}

ProgName == <<"new_component.py">>

\* sys.argv[i], i counted from 0 as in the source.
Argv(pr, i) == pr.argv[i + 1]

\* A process that has not been started.
NoPath == [root |-> <<>>, parts |-> <<>>]

IdleProc ==
    [pc |-> "idle", argv |-> <<>>, out |-> <<>>, err |-> "none", raised |-> "none",
     exit |-> -1, lean_path |-> NoPath, test_path |-> NoPath, module |-> <<>>]

\* A process about to enter main() with the given arguments after the
\* program name; exit is -1 until it ends.
NewProc(args) ==
    [IdleProc EXCEPT !.pc = "main", !.argv = <<ProgName>> \o args]

\* An exception nobody catches: the interpreter prints a traceback on
\* standard error and the process ends with status 1.
Raise(f, pr, e, where) ==
    [fs |-> f,
     pr |-> [pr EXCEPT !.pc = "exited", !.err = e, !.raised = where, !.exit = 1]]

\* print(line)
PrintLine(pr, line) == [pr EXCEPT !.out = Append(@, line)]

Goto(pr, pc) == [pr EXCEPT !.pc = pc]

\* Variant: the run ends with status 1.
FinishWithStatusOne(pr) == [pr EXCEPT !.pc = "exited", !.exit = 1]

\* The end of main(): status 0.
Finish(pr) == [pr EXCEPT !.pc = "exited", !.exit = 0]

\* Variant: no check of the argument count.
MainArgsNoUsage(f, pr) ==
    [fs |-> f,
     pr |-> [pr EXCEPT !.lean_path = IF Len(pr.argv) < 2 THEN NoPath ELSE Path(Argv(pr, 1)),
                       !.pc = "lean_exists"]]

\* main, lines 39-43: the usage error, or the call of write_lean_file.
MainArgs(f, pr) ==
    IF Len(pr.argv) < 2
    THEN [fs |-> f, pr |-> [PrintLine(pr, UsageLine) EXCEPT !.pc = "exited", !.exit = 1]]
    ELSE [fs |-> f,
          pr |-> [pr EXCEPT !.lean_path = Path(Argv(pr, 1)), !.pc = "lean_exists"]]

\* Variant: no existence check, the file is always written.
LeanExistsIgnored(f, pr) == [fs |-> f, pr |-> Goto(pr, "lean_mkdir")]

\* write_lean_file, lines 8-10
LeanExists(f, pr) ==
    IF Exists(f, pr.lean_path.parts)
    THEN [fs |-> f, pr |-> Goto(PrintLine(pr, AlreadyExistsLine(pr.lean_path)), "main_test")]
    ELSE [fs |-> f, pr |-> Goto(pr, "lean_mkdir")]

\* write_lean_file, line 11
LeanMkdir(f, pr) ==
    LET r == Mkdir(f, Parent(pr.lean_path.parts))
    IN  IF r.err # "none" THEN Raise(f, pr, r.err, "write_lean_file")
        ELSE [fs |-> r.fs, pr |-> Goto(pr, "lean_write")]

\* write_lean_file, lines 12-22
LeanWrite(f, pr) ==
    LET r == WriteText(f, pr.lean_path.parts, PrimaryTemplate)
    IN  IF r.err # "none" THEN Raise(f, pr, r.err, "write_lean_file")
        ELSE [fs |-> r.fs, pr |-> Goto(PrintLine(pr, CreatedLine(pr.lean_path)), "main_test")]

\* main, lines 44-47: the end of the run, or the module identifier (with_suffix
\* raises ValueError for a path with an empty name), the test path and the
\* call of write_test_file.
MainTest(f, pr) ==
    IF Len(pr.argv) > 2
    THEN IF Name(pr.lean_path) = <<>> THEN Raise(f, pr, "ValueError", "main")
         ELSE [fs |-> f,
               pr |-> [pr EXCEPT !.module = ModuleIdentifier(pr.lean_path),
                                 !.test_path = Path(Argv(pr, 2)),
                                 !.pc = "test_exists"]]
    ELSE [fs |-> f, pr |-> Finish(pr)]

\* Variant: no existence check, the file is always written.
TestExistsIgnored(f, pr) == [fs |-> f, pr |-> Goto(pr, "test_mkdir")]

\* Variant: an existing file is skipped without a line.
TestExistsSilent(f, pr) ==
    IF Exists(f, pr.test_path.parts)
    THEN [fs |-> f, pr |-> Finish(pr)]
    ELSE [fs |-> f, pr |-> Goto(pr, "test_mkdir")]

\* write_test_file, lines 26-28
TestExists(f, pr) ==
    IF Exists(f, pr.test_path.parts)
    THEN [fs |-> f, pr |-> Finish(PrintLine(pr, AlreadyExistsLine(pr.test_path)))]
    ELSE [fs |-> f, pr |-> Goto(pr, "test_mkdir")]

\* Variant: a failure removes the primary file before it propagates.
TestMkdirRollback(f, pr) ==
    LET r == Mkdir(f, Parent(pr.test_path.parts))
    IN  IF r.err # "none"
        THEN Raise([f EXCEPT ![pr.lean_path.parts] = Absent], pr, r.err, "write_test_file")
        ELSE [fs |-> r.fs, pr |-> Goto(pr, "test_write")]

\* write_test_file, line 29
TestMkdir(f, pr) ==
    LET r == Mkdir(f, Parent(pr.test_path.parts))
    IN  IF r.err # "none" THEN Raise(f, pr, r.err, "write_test_file")
        ELSE [fs |-> r.fs, pr |-> Goto(pr, "test_write")]

\* Variant: exclusive creation (mode "x"), an existing file raising
\* FileExistsError.
TestWriteExclusive(f, pr) ==
    LET r == WriteText(f, pr.test_path.parts, TestTemplate(pr.module))
    IN  IF Exists(f, pr.test_path.parts)
        THEN Raise(f, pr, "FileExistsError", "write_test_file")
        ELSE IF r.err # "none" THEN Raise(f, pr, r.err, "write_test_file")
        ELSE [fs |-> r.fs, pr |-> Finish(PrintLine(pr, CreatedLine(pr.test_path)))]

\* write_test_file, lines 30-35
TestWrite(f, pr) ==
    LET r == WriteText(f, pr.test_path.parts, TestTemplate(pr.module))
    IN  IF r.err # "none" THEN Raise(f, pr, r.err, "write_test_file")
        ELSE [fs |-> r.fs, pr |-> Finish(PrintLine(pr, CreatedLine(pr.test_path)))]

\* The statement a running process executes next.
StepOf(f, pr) ==
    CASE pr.pc = "main"        -> MainArgs(f, pr)
      [] pr.pc = "lean_exists" -> LeanExists(f, pr)
      [] pr.pc = "lean_mkdir"  -> LeanMkdir(f, pr)
      [] pr.pc = "lean_write"  -> LeanWrite(f, pr)
      [] pr.pc = "main_test"   -> MainTest(f, pr)
      [] pr.pc = "test_exists" -> TestExists(f, pr)
      [] pr.pc = "test_mkdir"  -> TestMkdir(f, pr)
      [] pr.pc = "test_write"  -> TestWrite(f, pr)

Running(pr) == pr.pc \notin {"idle", "exited"}

RECURSIVE RunToEnd(_, _)
\* A process running alone, from where it is to its end.
RunToEnd(f, pr) ==
    IF ~Running(pr) THEN [fs |-> f, pr |-> pr]
    ELSE LET r == StepOf(f, pr) IN RunToEnd(r.fs, r.pr)

\* main(): a whole run of the script with nothing else touching the files.
Main(f, args) == RunToEnd(f, NewProc(args))

----------------------------------------------------------------------------
(* Inputs *)

ArgLean == <<"a", Sep, "a", Sep, "F", Dot, "x">>
ArgTest == <<Dot, Sep, "t", Sep, "F", Dot, "x">>
ArgDir  == <<"a">>
ArgDot  == <<Dot>>

\* The path arguments tried: all relative, all inside Nodes.
ArgStrings == {ArgLean, ArgTest, ArgDir, ArgDot}

\* The command lines tried (sys.argv[1:]): none, one or two paths, and one
\* line with an argument after the test path.
Argvs ==
    {<<>>} \cup {<<a>> : a \in ArgStrings} \cup (ArgStrings \X ArgStrings)
           \cup {<<ArgLean, ArgTest, ArgDir>>}

\* The command lines of the concurrent runs.
RaceArgvs ==
    {<<>>} \cup {<<a>> : a \in {ArgLean, ArgTest}}
           \cup ({ArgLean, ArgTest} \X {ArgLean, ArgTest})

\* The filesystems a run may start from: the working directory exists, and
\* whatever exists lies in a directory.
FsStates ==
    {f \in [Nodes -> {Absent, Dir(TRUE), Dir(FALSE), File(OtherContent)}] :
        /\ f[<<>>].kind = "dir"
        /\ \A d \in Nodes \ {<<>>} : f[d].kind # "none" => f[Parent(d)].kind = "dir"
        /\ \A d \in Nodes : (f[d].kind = "dir" /\ ~f[d].w) => \E c \in Nodes : c # d /\ Parent(c) = d}

EmptyFs == [d \in Nodes |-> IF d = <<>> THEN Dir(TRUE) ELSE Absent]

----------------------------------------------------------------------------
(* Specifications *)

Init ==
    /\ fs \in FsStates
    /\ proc = [p \in Procs |-> IdleProc]

\* A whole run with the given arguments, alone on the filesystem; process 1
\* keeps the record of the last run.
Invoke(args) ==
    LET r == Main(fs, args)
    IN  /\ fs' = r.fs
        /\ proc' = [proc EXCEPT ![1] = r.pr]

Next == \E args \in Argvs : Invoke(args)

\* Runs one after the other, from any filesystem.
Spec == Init /\ [][Next]_vars

\* Process p is started.
Launch(p, args) ==
    /\ proc[p].pc \in {"idle", "exited"}
    /\ proc' = [proc EXCEPT ![p] = NewProc(args)]
    /\ fs' = fs

\* The filesystem and process p after p's step with result r.
Becomes(p, r) ==
    /\ fs' = r.fs
    /\ proc' = [proc EXCEPT ![p] = r.pr]

\* One action per statement a process executes on its own.
StepMainArgs(p) ==
    /\ proc[p].pc = "main"
    /\ Becomes(p, MainArgs(fs, proc[p]))

StepLeanExists(p) ==
    /\ proc[p].pc = "lean_exists"
    /\ Becomes(p, LeanExists(fs, proc[p]))

StepLeanMkdir(p) ==
    /\ proc[p].pc = "lean_mkdir"
    /\ Becomes(p, LeanMkdir(fs, proc[p]))

StepLeanWrite(p) ==
    /\ proc[p].pc = "lean_write"
    /\ Becomes(p, LeanWrite(fs, proc[p]))

StepMainTest(p) ==
    /\ proc[p].pc = "main_test"
    /\ Becomes(p, MainTest(fs, proc[p]))

StepTestExists(p) ==
    /\ proc[p].pc = "test_exists"
    /\ Becomes(p, TestExists(fs, proc[p]))

StepTestMkdir(p) ==
    /\ proc[p].pc = "test_mkdir"
    /\ Becomes(p, TestMkdir(fs, proc[p]))

StepTestWrite(p) ==
    /\ proc[p].pc = "test_write"
    /\ Becomes(p, TestWrite(fs, proc[p]))

RaceNext ==
    \E p \in Procs :
        \/ \E args \in RaceArgvs : Launch(p, args)
        \/ StepMainArgs(p)
        \/ StepLeanExists(p)
        \/ StepLeanMkdir(p)
        \/ StepLeanWrite(p)
        \/ StepMainTest(p)
        \/ StepTestExists(p)
        \/ StepTestMkdir(p)
        \/ StepTestWrite(p)

\* Two runs at once, their filesystem calls interleaved.
SpecRace == Init /\ [][RaceNext]_vars

InitPure ==
    /\ fs = EmptyFs
    /\ proc = [p \in Procs |-> IdleProc]

\* Lines 42 and 44-46 applied to a first argument s, in a fresh process.
Derive(s) ==
    /\ proc[1].pc = "idle"
    /\ LET started == MainArgs(fs, NewProc(<<s, ArgTest>>)).pr
           r       == MainTest(fs, Goto(started, "main_test"))
       IN  /\ fs' = r.fs
           /\ proc' = [proc EXCEPT ![1] = r.pr]

PureNext == \E s \in SeqsUpTo(Chars, MaxLen) : Derive(s)

\* The module identifier of every argument string up to MaxLen.
SpecPure == InitPure /\ [][PureNext]_vars

----------------------------------------------------------------------------
(* Vocabulary of the properties *)

\* Under Spec, the record of the run of the last step.
Ran == proc[1]

\* Whether the run was given at least n path arguments.
HasArgs(pr, n) == Len(pr.argv) >= n + 1

\* The nodes the first and the second argument name.
PrimaryNode(pr) == Path(pr.argv[2]).parts
TestNode(pr) == Path(pr.argv[3]).parts

\* The lines the run owes for its first and its second argument.
PrimaryCreated(pr) == <<"Created ">> \o StrOf(Path(pr.argv[2]))
PrimarySkipped(pr) == StrOf(Path(pr.argv[2])) \o <<" already exists">>
TestCreated(pr) == <<"Created ">> \o StrOf(Path(pr.argv[3]))
TestSkipped(pr) == StrOf(Path(pr.argv[3])) \o <<" already exists">>

\* The dotted form of a path string, computed on its characters: without the
\* extension (from the last dot, when that dot lies inside the final name and
\* is neither its first nor its last character), separators turned to dots.
DottedOf(s) ==
    LET seps    == {i \in 1..Len(s) : s[i] = Sep}
        lastSep == IF seps = {} THEN 0 ELSE CHOOSE i \in seps : \A j \in seps : j <= i
        dots    == {i \in 1..Len(s) : s[i] = Dot}
        lastDot == IF dots = {} THEN 0 ELSE CHOOSE i \in dots : \A j \in dots : j <= i
        kept    == IF lastDot > lastSep + 1 /\ lastDot < Len(s) THEN lastDot - 1 ELSE Len(s)
    IN  [i \in 1..kept |-> IF s[i] = Sep THEN Dot ELSE s[i]]

\* The module identifier the run owes for its first argument.
ExpectedModule(pr) == DottedOf(StrOf(Path(pr.argv[2])))

\* The content the test file owes.
ExpectedTestContent(pr) ==
    <<"import ">> \o ExpectedModule(pr) \o <<"\n\n", "-- TODO: add tests for ">>
        \o ExpectedModule(pr) \o <<".\n">>

\* The filesystem refuses to create a file at d: a parent is a regular file,
\* or the deepest parent that exists is not writable.
Rejects(f, d) ==
    \/ \E a \in Ancestors(d) : f[a].kind = "file"
    \/ \E a \in Ancestors(d) :
          /\ f[a].kind = "dir" /\ ~f[a].w
          /\ \A b \in Ancestors(d) \cup {d} : Len(b) > Len(a) => f[b].kind = "none"

----------------------------------------------------------------------------
(* C5: no path argument *)

\* C5: a run with no path argument prints the usage message on standard
\* output, ends with exit code 1, and leaves the filesystem as it was.
C5_UsageError ==
    [][~HasArgs(Ran', 1) =>
          /\ Ran'.out = <<UsageLine>>
          /\ Ran'.exit = 1
          /\ Ran'.pc = "exited"
          /\ fs' = fs]_vars

\* A run without arguments has ended, the usage line printed.
C5_Witness ==
    /\ Ran.pc = "exited"
    /\ ~HasArgs(Ran, 1)
    /\ Ran.out = <<UsageLine>>
    /\ Ran.exit = 1

----------------------------------------------------------------------------
(* C1: an existing file is never overwritten *)

\* Process p leaves the statement at pc in this step.
Leaves(p, pc) == proc[p].pc = pc /\ proc'[p].pc # pc

\* C1: whenever write_lean_file or write_test_file finds something at its
\* path, the call returns at once: the filesystem is left as it was, whatever
\* the file holds, and the one line printed is "<path> already exists".
C1_NeverOverwrites ==
    [][\A p \in Procs :
          /\ (Leaves(p, "lean_exists") /\ Exists(fs, PrimaryNode(proc[p]))) =>
                /\ fs' = fs
                /\ proc'[p].out = Append(proc[p].out, PrimarySkipped(proc[p]))
                /\ proc'[p].pc = "main_test"
          /\ (Leaves(p, "test_exists") /\ Exists(fs, TestNode(proc[p]))) =>
                /\ fs' = fs
                /\ proc'[p].out = Append(proc[p].out, TestSkipped(proc[p]))
                /\ proc'[p].pc = "exited"
                /\ proc'[p].exit = 0]_vars

\* A run has skipped both of its files, each holding something other than
\* its template.
C1_Witness ==
    \E p \in Procs :
        /\ proc[p].pc = "exited"
        /\ HasArgs(proc[p], 2)
        /\ PrimaryNode(proc[p]) # TestNode(proc[p])
        /\ proc[p].out = <<PrimarySkipped(proc[p]), TestSkipped(proc[p])>>
        /\ fs[PrimaryNode(proc[p])] = File(OtherContent)
        /\ fs[TestNode(proc[p])] = File(OtherContent)

----------------------------------------------------------------------------
(* C2: creation of the primary file *)

ParentsAreDirs(f, d) == \A a \in Ancestors(d) : f[a].kind = "dir"

\* C2 as claimed: for every path at which nothing exists, the primary step
\* creates the missing parent directories, leaves a file with the primary
\* template and reports "Created <path>".
C2_AsClaimed ==
    [][(HasArgs(Ran', 1) /\ ~Exists(fs, PrimaryNode(Ran'))) =>
          /\ ParentsAreDirs(fs', PrimaryNode(Ran'))
          /\ fs'[PrimaryNode(Ran')] = File(PrimaryTemplate)
          /\ Len(Ran'.out) >= 1
          /\ Ran'.out[1] = PrimaryCreated(Ran')]_vars

\* C2: for every path at which nothing exists, the primary step creates the
\* missing parent directories, leaves a file with the primary template and
\* reports "Created <path>", unless the filesystem rejects the directory
\* creation or the write: then, and only then, the error ends the run with
\* exit code 1, nothing printed and nothing left at the path.
C2_CreatesPrimary ==
    [][(HasArgs(Ran', 1) /\ ~Exists(fs, PrimaryNode(Ran'))) =>
          IF Rejects(fs, PrimaryNode(Ran'))
          THEN /\ Ran'.raised = "write_lean_file"
               /\ Ran'.out = <<>>
               /\ Ran'.exit = 1
               /\ fs' = fs
          ELSE /\ Ran'.raised # "write_lean_file"
               /\ ParentsAreDirs(fs', PrimaryNode(Ran'))
               /\ fs'[PrimaryNode(Ran')] = File(PrimaryTemplate)
               /\ Len(Ran'.out) >= 1
               /\ Ran'.out[1] = PrimaryCreated(Ran')]_vars

\* A run has created a/a/F.x below the directories a and a/a, and nothing
\* else.
C2_Witness ==
    /\ Ran.pc = "exited"
    /\ Ran.argv = <<ProgName, ArgLean>>
    /\ Ran.out = <<PrimaryCreated(Ran)>>
    /\ fs[<<NameA>>] = Dir(TRUE)
    /\ fs[<<NameA, NameA>>] = Dir(TRUE)
    /\ fs[<<NameA, NameA, NameF>>] = File(PrimaryTemplate)
    /\ fs[<<NameT>>] = Absent

----------------------------------------------------------------------------
(* C6: the exit code *)

\* C6 as claimed: whenever at least one path argument is given, the process
\* ends with exit code 0.
C6_AsClaimed == (Ran.pc = "exited" /\ HasArgs(Ran, 1)) => Ran.exit = 0

\* C6: whenever at least one path argument is given, the process ends with
\* exit code 0 if no exception ends it, whether its files were created or
\* skipped, and with exit code 1 if one does; a run with one argument whose
\* path exists prints "<path> already exists", changes nothing and ends
\* with exit code 0.
C6_ExitCode ==
    [][HasArgs(Ran', 1) =>
          /\ Ran'.pc = "exited"
          /\ Ran'.exit = IF Ran'.err = "none" THEN 0 ELSE 1
          /\ (Ran'.err # "none") <=>
                \/ Rejects(fs, PrimaryNode(Ran')) /\ ~Exists(fs, PrimaryNode(Ran'))
                \/ HasArgs(Ran', 2) /\ Name(Path(Ran'.argv[2])) = <<>>
                \/ HasArgs(Ran', 2) /\ Ran'.raised = "write_test_file"
          /\ (~HasArgs(Ran', 2) /\ Exists(fs, PrimaryNode(Ran'))) =>
                /\ fs' = fs
                /\ Ran'.out = <<PrimarySkipped(Ran')>>
                /\ Ran'.exit = 0]_vars

\* A run with one argument has skipped a file it did not write and ended
\* with exit code 0.
C6_Witness ==
    /\ Ran.pc = "exited"
    /\ Ran.argv = <<ProgName, ArgLean>>
    /\ Ran.out = <<PrimarySkipped(Ran)>>
    /\ Ran.exit = 0
    /\ fs[PrimaryNode(Ran)] = File(OtherContent)

----------------------------------------------------------------------------
(* C3: the module identifier *)

\* The paths with no final name: ".", "/" and "//".
Nameless == {<<Dot>>, <<Sep>>, <<Sep, Sep>>}

----------------------------------------------------------------------------
(* C4: creation of the test file *)

PrimaryCovers(pr) ==
    \/ TestNode(pr) = PrimaryNode(pr)
    \/ TestNode(pr) \in Ancestors(PrimaryNode(pr))

----------------------------------------------------------------------------
(* C7: the output *)

\* The line of the primary step and what it tells: "Created" exactly when
\* nothing was at the path and the step wrote the template there, "already
\* exists" exactly when something was and the step left it alone.
PrimaryLineTells(f, g, pr) ==
    IF Exists(f, PrimaryNode(pr))
    THEN pr.out[1] = PrimarySkipped(pr) /\ g[PrimaryNode(pr)] = f[PrimaryNode(pr)]
    ELSE pr.out[1] = PrimaryCreated(pr) /\ g[PrimaryNode(pr)] = File(PrimaryTemplate)

\* The same for the test step, which finds what the primary step left.
TestLineTells(f, g, pr) ==
    IF Exists(f, TestNode(pr))
    THEN pr.out[2] = TestSkipped(pr) /\ g[TestNode(pr)] = f[TestNode(pr)]
    ELSE IF PrimaryCovers(pr)
    THEN /\ pr.out[2] = TestSkipped(pr)
         /\ g[TestNode(pr)] =
                IF TestNode(pr) = PrimaryNode(pr) THEN File(PrimaryTemplate) ELSE Dir(TRUE)
    ELSE pr.out[2] = TestCreated(pr) /\ g[TestNode(pr)] = File(ExpectedTestContent(pr))

\* C7 as claimed: a run with at least one path argument prints one line for
\* the primary path, then one for the test path iff a second argument is
\* given, each telling what its step found and did.
C7_AsClaimed ==
    [][HasArgs(Ran', 1) =>
          /\ Len(Ran'.out) = IF HasArgs(Ran', 2) THEN 2 ELSE 1
          /\ PrimaryLineTells(fs, fs', Ran')
          /\ HasArgs(Ran', 2) => TestLineTells(fs, fs', Ran')]_vars

\* The file operations of the run that came to their end.
Completed(pr) ==
    IF pr.raised = "write_lean_file" THEN 0
    ELSE IF pr.raised \in {"main", "write_test_file"} THEN 1
    ELSE IF HasArgs(pr, 2) THEN 2 ELSE 1

\* C7: a run with at least one path argument prints one line per file
\* operation that comes to its end, the primary's before the test's, each
\* telling what its step found and did; an operation that raises prints
\* nothing and ends the run, so that a run no exception ends prints one line
\* for the primary path, then one for the test path iff a second argument
\* is given.
C7_OneLinePerOperation ==
    [][HasArgs(Ran', 1) =>
          /\ Len(Ran'.out) = Completed(Ran')
          /\ (Ran'.err = "none") => (Len(Ran'.out) = IF HasArgs(Ran', 2) THEN 2 ELSE 1)
          /\ (Ran'.err = "none") <=> (Ran'.raised = "none")
          /\ (Completed(Ran') >= 1) => PrimaryLineTells(fs, fs', Ran')
          /\ (Completed(Ran') >= 2) => TestLineTells(fs, fs', Ran')]_vars

\* A run has skipped its primary file and created its test file.
C7_Witness ==
    /\ Ran.pc = "exited"
    /\ Ran.argv = <<ProgName, ArgLean, ArgTest>>
    /\ Ran.out = <<PrimarySkipped(Ran), TestCreated(Ran)>>
    /\ fs[PrimaryNode(Ran)] = File(OtherContent)
    /\ fs[TestNode(Ran)] = File(ExpectedTestContent(Ran))

----------------------------------------------------------------------------
(* C8: no rollback *)

\* C8: when the primary file was created and the test step then fails with
\* a filesystem error, the error ends the process (exit code 1, nothing
\* more printed, no test file written) and the primary file stays, holding
\* the primary template.
C8_NoRollback ==
    [][(/\ Ran'.raised = "write_test_file"
        /\ ~Exists(fs, PrimaryNode(Ran'))) =>
          /\ Ran'.pc = "exited"
          /\ Ran'.exit = 1
          /\ Ran'.err \in {"NotADirectoryError", "PermissionError", "FileExistsError"}
          /\ Ran'.out = <<PrimaryCreated(Ran')>>
          /\ fs'[PrimaryNode(Ran')] = File(PrimaryTemplate)
          /\ fs'[TestNode(Ran')].kind # "file"]_vars

\* The primary file a/a/F.x was created, then ./t/F.x was refused.
C8_Witness ==
    /\ Ran.pc = "exited"
    /\ Ran.argv = <<ProgName, ArgLean, ArgTest>>
    /\ Ran.raised = "write_test_file"
    /\ Ran.exit = 1
    /\ Ran.out = <<PrimaryCreated(Ran)>>
    /\ fs[PrimaryNode(Ran)] = File(PrimaryTemplate)
    /\ fs[TestNode(Ran)] = Absent

----------------------------------------------------------------------------
(* C9: the race between two runs *)

\* C9: nothing holds the path between a run's check and its write; a write
\* that finds a file another run has put there since the check replaces its
\* content with the writer's own and reports "Created <path>".
C9_LastWriterWins ==
    [][\A p \in Procs :
          /\ (Leaves(p, "lean_write") /\ fs[PrimaryNode(proc[p])].kind = "file") =>
                /\ fs'[PrimaryNode(proc[p])] = File(PrimaryTemplate)
                /\ proc'[p].out = Append(proc[p].out, PrimaryCreated(proc[p]))
                /\ proc'[p].err = "none"
          /\ (Leaves(p, "test_write") /\ fs[TestNode(proc[p])].kind = "file") =>
                /\ fs'[TestNode(proc[p])] = File(ExpectedTestContent(proc[p]))
                /\ proc'[p].out = Append(proc[p].out, TestCreated(proc[p]))
                /\ proc'[p].err = "none"
                /\ proc'[p].exit = 0]_vars

\* Two runs have both reported "Created a/a/F.x", one as its primary file
\* and one as its test file; the file holds the test template, the primary
\* template written first being lost.
C9_Witness ==
    \E p, q \in Procs :
        /\ p # q
        /\ proc[p].pc = "exited" /\ proc[q].pc = "exited"
        /\ proc[p].argv = <<ProgName, ArgLean>>
        /\ proc[p].out = <<PrimaryCreated(proc[p])>>
        /\ proc[q].argv = <<ProgName, ArgTest, ArgLean>>
        /\ Len(proc[q].out) = 2
        /\ proc[q].out[2] = TestCreated(proc[q])
        /\ proc[p].exit = 0 /\ proc[q].exit = 0
        /\ fs[<<NameA, NameA, NameF>>] = File(ExpectedTestContent(proc[q]))

----------------------------------------------------------------------------
(* C10: the test path is the primary path *)

\* C10 as claimed: a run whose two arguments name the same absent file
\* creates it with the primary template, then skips the test write.
C10_AsClaimed ==
    [][(/\ HasArgs(Ran', 2)
        /\ TestNode(Ran') = PrimaryNode(Ran')
        /\ ~Exists(fs, PrimaryNode(Ran'))) =>
          /\ fs'[PrimaryNode(Ran')] = File(PrimaryTemplate)
          /\ Ran'.out = <<PrimaryCreated(Ran'), TestSkipped(Ran')>>]_vars

\* C10: a run whose two arguments name the same absent file creates it with
\* the primary template, then skips the test write: the file holds the
\* primary template, never the test template, and the output is "Created
\* <p>", then "<p> already exists"; unless the filesystem rejects the
\* creation, the error then ending the run before the test step.
C10_SamePath ==
    [][(/\ HasArgs(Ran', 2)
        /\ TestNode(Ran') = PrimaryNode(Ran')
        /\ ~Exists(fs, PrimaryNode(Ran'))) =>
          IF Rejects(fs, PrimaryNode(Ran'))
          THEN /\ Ran'.raised = "write_lean_file"
               /\ Ran'.out = <<>>
               /\ fs' = fs
          ELSE /\ fs'[PrimaryNode(Ran')] = File(PrimaryTemplate)
               /\ fs'[PrimaryNode(Ran')] # File(ExpectedTestContent(Ran'))
               /\ Ran'.out = <<PrimaryCreated(Ran'), TestSkipped(Ran')>>
               /\ Ran'.exit = 0]_vars

\* A run given a/a/F.x twice has created it and then skipped it.
C10_Witness ==
    /\ Ran.pc = "exited"
    /\ Ran.argv = <<ProgName, ArgLean, ArgLean>>
    /\ Ran.out = <<PrimaryCreated(Ran), TestSkipped(Ran)>>
    /\ fs[<<NameA, NameA, NameF>>] = File(PrimaryTemplate)

====
